---- MODULE Spec2Model ----
(***************************************************************************)
(* Model of the deadrop message store (bin/deadrop.js): a SQLite table of  *)
(* messages shared by short-lived CLI processes.  Every process runs one   *)
(* command (send, check, inbox); each sqlite3 call of a command is one     *)
(* autocommitted statement, so the statements of concurrent processes      *)
(* interleave at statement granularity.                                    *)
(***************************************************************************)
EXTENDS Integers, Sequences, FiniteSets, TLC

\* ---------------------------------------------------------------- bounds
MaxMsgs == 2
MaxTime == 1

\* Two process slots: a command runs alone or overlaps one other command; a
\* slot whose command has exited is reused for the next command.
Procs == {1, 2}
Ids == 1..MaxMsgs

\* ---------------------------------------------------------------- values
\* SQL NULL and the JavaScript undefined of an option that was not given.
\* A present value v is the one-element sequence <<v>>.
NULL == <<>>
Undefined == <<>>

Agents == {"", "cody", "ralph"}

\* File names: the default of the program and what the environment may name.
NoPath == ""
DefaultPath == "~/.openclaw/workspace/deadrop.sqlite"
CustomPath == "/custom/path/deadrop.sqlite"
OtherPath == "/other/deadrop.sqlite"

\* path.dirname
Dirname(path) ==
  CASE path = DefaultPath -> "~/.openclaw/workspace"
    [] path = CustomPath -> "/custom/path"
    [] path = OtherPath -> "/other"
    [] OTHER -> "."

\* process.env: a variable is unset (undefined), set to the empty string or
\* set to a file name.
Environments ==
  [ DEADROP_DB : {Undefined, <<"">>, <<CustomPath>>},
    DEADROP_DB_PATH : {Undefined, <<OtherPath>>} ]

NoEnvironment == [DEADROP_DB |-> Undefined, DEADROP_DB_PATH |-> Undefined]

\* (variant: the variable read is DEADROP_DB_PATH)
DB_PATH_OtherVariable(e) ==
  IF e.DEADROP_DB_PATH = Undefined \/ e.DEADROP_DB_PATH = <<"">>
    THEN DefaultPath
    ELSE e.DEADROP_DB_PATH[1]

\* (variant: the default path whatever the environment says)
DB_PATH_DefaultOnly(e) == DefaultPath

\* const DB_PATH = process.env.DEADROP_DB || path.join(os.homedir(), ...):
\* undefined and the empty string are falsy
DB_PATH(e) ==
  IF e.DEADROP_DB = Undefined \/ e.DEADROP_DB = <<"">>
    THEN DefaultPath
    ELSE e.DEADROP_DB[1]

\* The argument tuples of `deadrop send` the model draws from.
Requests ==
  { [from |-> "larry", to |-> "cody",  subject |-> <<"Update">>, body |-> "done"],
    [from |-> "cody",  to |-> "ralph", subject |-> Undefined,    body |-> "x"],
    [from |-> "",      to |-> "cody",  subject |-> <<"">>,       body |-> "x"],
    [from |-> "larry", to |-> "",      subject |-> Undefined,    body |-> ""] }

SendCmd(r) == [name |-> "send", req |-> r]
CheckCmd(a) == [name |-> "check", agent |-> a]
InboxCmd(a, u) == [name |-> "inbox", agent |-> a, unreadOnly |-> u]

\* Every command line the model draws from.
Commands ==
  { SendCmd(r) : r \in Requests }
    \cup { CheckCmd(a) : a \in Agents }
    \cup { InboxCmd(a, u) : a \in Agents, u \in BOOLEAN }

\* Deposits without an empty field, for cody and for ralph, and drains of cody.
DrainCommands ==
  { c \in Commands :
      /\ c.name \in {"send", "check"}
      /\ c.name = "send" => c.req.from # "" /\ c.req.to # "" /\ c.req.body # ""
      /\ c.name = "check" => c.agent = "cody" }

\* Deposits for cody, drains of cody and unfiltered listings of cody's inbox.
InboxCommands ==
  { c \in Commands :
      /\ c.name = "send" => c.req.from # "" /\ c.req.to = "cody" /\ c.req.body # ""
      /\ c.name = "check" => c.agent = "cody"
      /\ c.name = "inbox" => c.agent = "cody" /\ ~c.unreadOnly }

NoCommand == [name |-> "none"]

\* Two inboxes side by side: process 1 deposits for and drains cody, process 2
\* deposits for and drains ralph.
InboxOf(p) == IF p = 1 THEN "cody" ELSE "ralph"

TwoInboxCommands(p) ==
  { c \in Commands :
      \/ c.name = "send" /\ c.req.from # "" /\ c.req.body # "" /\ c.req.to = InboxOf(p)
      \/ c.name = "check" /\ c.agent = InboxOf(p) }

VARIABLES
  env,          \* the environment the commands are started in
  dirs,         \* the directories that exist
  dbPath,       \* per process: its DB_PATH constant, "" before the process has started
  corrupted,    \* the database file would fail PRAGMA integrity_check
  config,       \* per process: the cron configuration it has printed, <<>> when none
  fileExists,   \* the database file exists at DB_PATH
  tableExists,  \* the messages table exists in the file
  messages,     \* the rows of the messages table, in rowid order
  seq,          \* sqlite_sequence of the AUTOINCREMENT id: largest id ever assigned
  now,          \* the latest CURRENT_TIMESTAMP a statement has read, in seconds
  pc,           \* per process: "idle", "open", "bootstrap", "stmt", "update", "cron", "done"
  cmd,          \* per process: the command it runs
  dbOpen,       \* per process: its Database handle is open
  selected,     \* per process: the rows its SELECT returned (the value check and inbox resolve with)
  outcome,      \* per process: how the promise settled: kind "pending", "ok" or "error"
  exitCode,     \* per process: exit status of the command, -1 while running
  issued,       \* history: the ids returned by sendMessage, in completion order
  delivered,    \* history: per id, how many checkMessages calls resolved with it
  start         \* history, per process: what had happened when its command started

vars == << env, dirs, dbPath, corrupted, config, fileExists, tableExists, messages, seq, now, pc, cmd, dbOpen,
           selected, outcome, exitCode, issued, delivered, start >>

Pending == [kind |-> "pending", lastID |-> 0, err |-> ""]

\* ---------------------------------------------------------------- helpers
Range(s) == { s[i] : i \in DOMAIN s }

RowIds(rows) == { rows[i].id : i \in DOMAIN rows }

ReadIds == { messages[i].id : i \in { j \in DOMAIN messages : messages[j].read_at # NULL } }

DeliveredIds == { i \in Ids : delivered[i] > 0 }

Snapshot == [nIssued |-> Len(issued), read |-> ReadIds, delivered |-> DeliveredIds]

\* The state before the first command, in environment e with directories d
InitIn(e, d) ==
  /\ env = e
  /\ dirs = d
  /\ dbPath = [p \in Procs |-> NoPath]
  /\ corrupted = FALSE
  /\ config = [p \in Procs |-> <<>>]
  /\ fileExists = FALSE
  /\ tableExists = FALSE
  /\ messages = <<>>
  /\ seq = 0
  /\ now = 0
  /\ pc = [p \in Procs |-> "idle"]
  /\ cmd = [p \in Procs |-> NoCommand]
  /\ dbOpen = [p \in Procs |-> FALSE]
  /\ selected = [p \in Procs |-> <<>>]
  /\ outcome = [p \in Procs |-> Pending]
  /\ exitCode = [p \in Procs |-> -1]
  /\ issued = <<>>
  /\ delivered = [i \in Ids |-> 0]
  /\ start = [p \in Procs |-> Snapshot]

\* A fresh machine: nothing is set in the environment, no directory exists.
Init == InitIn(NoEnvironment, {})

\* Any environment, with any of the directories there already.
InitPath ==
  \E e \in Environments :
    \E d \in SUBSET {Dirname(DefaultPath), Dirname(CustomPath), Dirname(OtherPath)} :
      InitIn(e, d)

\* ---------------------------------------------------------------- settling
Settled(kind, lastID, err) == [kind |-> kind, lastID |-> lastID, err |-> err]

\* resolve(value): lastID for send; check and inbox resolve with their rows
Resolve(p, lastID) ==
  /\ outcome' = [outcome EXCEPT ![p] = Settled("ok", lastID, "")]
  /\ exitCode' = [exitCode EXCEPT ![p] = 0]
  /\ pc' = [pc EXCEPT ![p] = "done"]

\* (variant: the catch prints the error and does not call process.exit(1))
Reject_NoExit(p, err) ==
  /\ outcome' = [outcome EXCEPT ![p] = Settled("error", 0, err)]
  /\ exitCode' = [exitCode EXCEPT ![p] = 0]
  /\ pc' = [pc EXCEPT ![p] = "done"]

\* (variant: the error branch of a callback returns without calling reject:
\* nothing is pending in the event loop any more and the process ends, status 0)
Reject_NeverCalled(p, err) ==
  /\ outcome' = [outcome EXCEPT ![p] = Pending]
  /\ exitCode' = [exitCode EXCEPT ![p] = 0]
  /\ pc' = [pc EXCEPT ![p] = "done"]

\* reject(err) reaches the catch of the command's action, which prints the
\* error and calls process.exit(1).
Reject(p, err) ==
  /\ outcome' = [outcome EXCEPT ![p] = Settled("error", 0, err)]
  /\ exitCode' = [exitCode EXCEPT ![p] = 1]
  /\ pc' = [pc EXCEPT ![p] = "done"]

\* ---------------------------------------------------------------- SQL
\* (variant: undefined bound as the empty string)
BindParam_EmptyText(v) == IF v = Undefined THEN <<"">> ELSE v

\* A bound parameter: undefined binds as NULL, a string as itself.
BindParam(v) == IF v = Undefined THEN NULL ELSE v

\* (variant: id INTEGER PRIMARY KEY without AUTOINCREMENT: largest stored rowid + 1)
NextId_MaxRowid ==
  IF messages = <<>>
    THEN 1
    ELSE (CHOOSE m \in RowIds(messages) : \A n \in RowIds(messages) : n <= m) + 1

\* (variant: the id is taken again from the largest id assigned)
NextId_Reused == IF seq = 0 THEN 1 ELSE seq

\* The id AUTOINCREMENT gives the next row: one more than the largest id
\* ever assigned, kept in sqlite_sequence.
NextId == seq + 1

\* (variant: read_at defaults to CURRENT_TIMESTAMP like timestamp)
NewRow_ReadAtDefault(from, to, subject, body, t) ==
  [ id |-> NextId,
    from_agent |-> from,
    to_agent |-> to,
    subject |-> BindParam(subject),
    body |-> body,
    timestamp |-> t,
    read_at |-> <<t>> ]

\* INSERT INTO messages (from_agent, to_agent, subject, body) at second t:
\* id, timestamp and read_at take their column defaults.
NewRow(from, to, subject, body, t) ==
  [ id |-> NextId,
    from_agent |-> from,
    to_agent |-> to,
    subject |-> BindParam(subject),
    body |-> body,
    timestamp |-> t,
    read_at |-> NULL ]

\* (variant: the read_at filter is left out)
\* (variant: the to_agent condition is left out)
Matching_AnyAgent(agent, unreadOnly) ==
  { messages[i] : i \in { j \in DOMAIN messages :
        unreadOnly => messages[j].read_at = NULL } }

Matching_NoReadFilter(agent, unreadOnly) ==
  { messages[i] : i \in { j \in DOMAIN messages : messages[j].to_agent = agent } }

\* WHERE to_agent = ? [AND read_at IS NULL]
Matching(agent, unreadOnly) ==
  { messages[i] : i \in { j \in DOMAIN messages :
        /\ messages[j].to_agent = agent
        /\ (unreadOnly => messages[j].read_at = NULL) } }

\* (variant: only the first row of the result is kept, as db.get does)
Ordered_FirstRowOnly(rows, ascending) ==
  IF rows = {} THEN { <<>> }
  ELSE { <<r>> : r \in { x \in rows : \A y \in rows :
                            IF ascending THEN x.timestamp <= y.timestamp
                                         ELSE x.timestamp >= y.timestamp } }

\* ORDER BY timestamp ASC | DESC: every arrangement of the rows that is sorted
\* on timestamp; the order of rows with equal timestamps is not determined.
Ordered(rows, ascending) ==
  { s \in [1..Cardinality(rows) -> rows] :
      /\ \A i, j \in DOMAIN s : i # j => s[i] # s[j]
      /\ \A i, j \in DOMAIN s : i < j =>
           IF ascending THEN s[i].timestamp <= s[j].timestamp
                        ELSE s[i].timestamp >= s[j].timestamp }

\* (variant: the UPDATE marks every unread row instead of the selected ids)
MarkRead_AllUnread(ids, t) ==
  [ i \in DOMAIN messages |->
      IF messages[i].read_at = NULL
        THEN [messages[i] EXCEPT !.read_at = <<t>>]
        ELSE messages[i] ]

\* (variant: the UPDATE also sets timestamp = CURRENT_TIMESTAMP)
MarkRead_TouchesTimestamp(ids, t) ==
  [ i \in DOMAIN messages |->
      IF messages[i].id \in ids
        THEN [messages[i] EXCEPT !.read_at = <<t>>, !.timestamp = t]
        ELSE messages[i] ]

\* (variant: the statement is DELETE FROM messages WHERE id IN (ids))
MarkRead_Deletes(ids, t) ==
  SelectSeq(messages, LAMBDA r : r.id \notin ids)

\* (variant: the UPDATE matches no row)
MarkRead_Nothing(ids, t) == messages

\* (variant: only the first selected id is marked, WHERE id = ? with the id list)
MarkRead_OnlyFirst(ids, t) ==
  [ i \in DOMAIN messages |->
      IF messages[i].id \in ids /\ \A j \in ids : messages[i].id <= j
        THEN [messages[i] EXCEPT !.read_at = <<t>>]
        ELSE messages[i] ]

\* UPDATE messages SET read_at = CURRENT_TIMESTAMP WHERE id IN (ids), at second t
MarkRead(ids, t) ==
  [ i \in DOMAIN messages |->
      IF messages[i].id \in ids
        THEN [messages[i] EXCEPT !.read_at = <<t>>]
        ELSE messages[i] ]

\* (variant: a clock that may step back between two statements)
CurrentTimestamp_AnySecond == 0..MaxTime

\* The values CURRENT_TIMESTAMP can have when a statement reads it: the clock
\* runs on between statements and is not behind the latest value read.
CurrentTimestamp == now..MaxTime

\* ---------------------------------------------------------------- cron commands
\* The strings given to setup-cron and remove-cron are sequences of characters.
Whitespace == {" "}
Digits == {"0", "1", "2", "3", "4", "5", "6", "7", "8", "9"}

DigitValue(c) ==
  CASE c = "0" -> 0 [] c = "1" -> 1 [] c = "2" -> 2 [] c = "3" -> 3 [] c = "4" -> 4
    [] c = "5" -> 5 [] c = "6" -> 6 [] c = "7" -> 7 [] c = "8" -> 8 [] c = "9" -> 9

RECURSIVE TrimStart(_)
TrimStart(s) ==
  IF s # <<>> /\ Head(s) \in Whitespace THEN TrimStart(Tail(s)) ELSE s

RECURSIVE TrimEnd(_)
TrimEnd(s) ==
  IF s # <<>> /\ s[Len(s)] \in Whitespace THEN TrimEnd(SubSeq(s, 1, Len(s) - 1)) ELSE s

\* String.prototype.trim
Trim(s) == TrimEnd(TrimStart(s))

\* the longest prefix of s made of digits
RECURSIVE DigitsPrefix(_)
DigitsPrefix(s) ==
  IF s # <<>> /\ Head(s) \in Digits THEN <<Head(s)>> \o DigitsPrefix(Tail(s)) ELSE <<>>

\* the number a sequence of digits writes in base ten, after acc
RECURSIVE DecimalValue(_, _)
DecimalValue(ds, acc) ==
  IF ds = <<>> THEN acc ELSE DecimalValue(Tail(ds), 10 * acc + DigitValue(Head(ds)))

NaN == <<>>

\* parseInt(s): leading whitespace is skipped, a sign is read, then the longest
\* run of digits; what follows the digits is ignored; no digit gives NaN.  The
\* result is <<n>> or NaN.
parseInt(s) ==
  LET t == TrimStart(s)
      signed == t # <<>> /\ Head(t) \in {"-", "+"}
      ds == DigitsPrefix(IF signed THEN Tail(t) ELSE t)
      n == DecimalValue(ds, 0)
  IN IF ds = <<>> THEN NaN
     ELSE IF signed /\ Head(t) = "-" THEN << 0 - n >> ELSE << n >>

\* The --agent values the model draws from
CronAgents ==
  { <<>>, <<" ">>, <<"c", "o", "d", "y">>, <<" ", "c", "o", "d", "y", " ">>,
    <<"r", "a", "l", "p", "h">>, <<"r", " ", "j">> }

\* The --interval values the model draws from
CronIntervals ==
  { <<>>, <<"1", "5">>, <<"0">>, <<"-", "5">>, <<"a", "b", "c">>,
    <<"1", "5", "a", "b", "c">>, <<"0", ".", "5">>, <<"1", ".", "5">>, <<" ", "7">> }

\* .option('--interval <minutes>', ..., '10'): the value when the option is not given
DefaultInterval == <<"1", "0">>

\* options of setup-cron: interval is options.interval, given tells whether
\* --interval was on the command line
SetupCronCmd(a, given, i) ==
  [name |-> "setup-cron", agent |-> a, given |-> given,
   interval |-> IF given THEN i ELSE DefaultInterval]

RemoveCronCmd(a) == [name |-> "remove-cron", agent |-> a]

CronCommands ==
  { SetupCronCmd(a, TRUE, i) : a \in CronAgents, i \in CronIntervals }
    \cup { SetupCronCmd(a, FALSE, <<>>) : a \in CronAgents }
    \cup { RemoveCronCmd(a) : a \in CronAgents }

\* `deadrop check --agent ${agent}`
CheckCommandLine(agent) == <<"deadrop check --agent ">> \o agent

\* the cronConfig object of setup-cron
SetupConfig(agent, n) ==
  [action |-> "create", type |-> "cron", agent |-> Trim(agent),
   command |-> CheckCommandLine(Trim(agent)),
   interval |-> <<n, "m">>,
   description |-> <<"Deadrop inbox checking for agent ">> \o Trim(agent),
   enabled |-> TRUE]

\* (variant: the pattern is built from the agent as given)
RemoveConfig_Untrimmed(agent) ==
  [action |-> "delete", type |-> "cron", agent |-> Trim(agent),
   pattern |-> CheckCommandLine(agent),
   description |-> <<"Remove Deadrop cron job for agent ">> \o Trim(agent)]

\* the cronConfig object of remove-cron
RemoveConfig(agent) ==
  [action |-> "delete", type |-> "cron", agent |-> Trim(agent),
   pattern |-> CheckCommandLine(Trim(agent)),
   description |-> <<"Remove Deadrop cron job for agent ">> \o Trim(agent)]

\* ---------------------------------------------------------------- process steps
InFlight(p) == pc[p] \notin {"idle", "done"}

SendsInFlight == Cardinality({ q \in Procs : InFlight(q) /\ cmd[q].name = "send" })

\* A process is started with a command line: the module body creates the
\* directory of DB_PATH, program.parse() runs the command's action, which calls
\* the store function, which calls initDatabase and so new sqlite3.Database.
Invoke(p, c) ==
  /\ pc[p] \in {"idle", "done"}
  /\ c.name = "send" => seq + SendsInFlight < MaxMsgs
  /\ dbPath' = [dbPath EXCEPT ![p] = DB_PATH(env)]
  /\ dirs' = dirs \cup {Dirname(DB_PATH(env))}
  /\ UNCHANGED << env, corrupted >>
  /\ config' = [config EXCEPT ![p] = <<>>]
  /\ cmd' = [cmd EXCEPT ![p] = c]
  /\ pc' = [pc EXCEPT ![p] = IF c.name \in {"setup-cron", "remove-cron"} THEN "cron" ELSE "open"]
  /\ dbOpen' = [dbOpen EXCEPT ![p] = FALSE]
  /\ selected' = [selected EXCEPT ![p] = <<>>]
  /\ outcome' = [outcome EXCEPT ![p] = Pending]
  /\ exitCode' = [exitCode EXCEPT ![p] = -1]
  /\ start' = [start EXCEPT ![p] = Snapshot]
  /\ UNCHANGED << fileExists, tableExists, messages, seq, now, issued, delivered >>

\* initDatabase: the callback of new sqlite3.Database
OpenDb(p) ==
  /\ pc[p] = "open"
  /\ \/ /\ Dirname(dbPath[p]) \in dirs
        /\ fileExists' = TRUE
        /\ dbOpen' = [dbOpen EXCEPT ![p] = TRUE]
        /\ pc' = [pc EXCEPT ![p] = "bootstrap"]
        /\ UNCHANGED << outcome, exitCode >>
     \/ /\ Reject(p, "open")
        /\ UNCHANGED << fileExists, dbOpen >>
  /\ UNCHANGED << env, dirs, dbPath, corrupted, config, tableExists, messages, seq, now, cmd, selected,
                  issued, delivered, start >>

\* (variant: CREATE TABLE messages, without IF NOT EXISTS)
CreateTable_Plain(exists) ==
  IF exists
    THEN [err |-> "table messages already exists", table |-> TRUE]
    ELSE [err |-> "", table |-> TRUE]

\* CREATE TABLE IF NOT EXISTS messages (...): the table is created when it is
\* not there and left alone when it is; neither case is an error.
CreateTable(exists) ==
  IF exists
    THEN [err |-> "", table |-> exists]
    ELSE [err |-> "", table |-> TRUE]

\* initDatabase: CREATE TABLE IF NOT EXISTS messages and its callback
Bootstrap(p) ==
  /\ pc[p] = "bootstrap"
  /\ \/ LET r == CreateTable(tableExists)
        IN IF r.err = ""
             THEN /\ tableExists' = r.table
                  /\ pc' = [pc EXCEPT ![p] = "stmt"]
                  /\ UNCHANGED << outcome, exitCode >>
             ELSE /\ Reject(p, r.err)
                  /\ UNCHANGED tableExists
     \/ /\ Reject(p, "bootstrap")
        /\ UNCHANGED tableExists
  /\ UNCHANGED << env, dirs, dbPath, corrupted, config, fileExists, messages, seq, now, cmd, dbOpen, selected,
                  issued, delivered, start >>

\* (variant: an INSERT that reports an error has left its row behind)
Insert_RowThenError(p) ==
  /\ pc[p] = "stmt"
  /\ cmd[p].name = "send"
  /\ \E t \in CurrentTimestamp :
       LET r == cmd[p].req
           row == NewRow(r.from, r.to, r.subject, r.body, t)
       IN /\ messages' = Append(messages, row)
          /\ seq' = row.id
          /\ now' = t
          /\ \/ /\ issued' = Append(issued, row.id)
                /\ Resolve(p, row.id)
             \/ /\ Reject(p, "insert")
                /\ UNCHANGED issued
  /\ dbOpen' = [dbOpen EXCEPT ![p] = FALSE]
  /\ UNCHANGED << env, dirs, dbPath, corrupted, config, fileExists, tableExists, cmd, selected, delivered, start >>

\* sendMessage: the INSERT and its callback
Insert(p) ==
  /\ pc[p] = "stmt"
  /\ cmd[p].name = "send"
  /\ \/ \E t \in CurrentTimestamp :
          LET r == cmd[p].req
              row == NewRow(r.from, r.to, r.subject, r.body, t)
          IN /\ messages' = Append(messages, row)
             /\ seq' = row.id
             /\ now' = t
             /\ issued' = Append(issued, row.id)
             /\ Resolve(p, row.id)
     \/ /\ Reject(p, "insert")
        /\ UNCHANGED << messages, seq, now, issued >>
  /\ dbOpen' = [dbOpen EXCEPT ![p] = FALSE]
  /\ UNCHANGED << env, dirs, dbPath, corrupted, config, fileExists, tableExists, cmd, selected, delivered, start >>

\* (variant: the callback runs the UPDATE whatever the SELECT returned)
SelectUnread_NoEmptyCheck(p) ==
  /\ pc[p] = "stmt"
  /\ cmd[p].name = "check"
  /\ \/ \E rows \in Ordered(Matching(cmd[p].agent, TRUE), TRUE) :
          /\ selected' = [selected EXCEPT ![p] = rows]
          /\ pc' = [pc EXCEPT ![p] = "update"]
          /\ UNCHANGED << outcome, exitCode, dbOpen >>
     \/ /\ Reject(p, "select")
        /\ UNCHANGED << selected, dbOpen >>
  /\ UNCHANGED << env, dirs, dbPath, corrupted, config, fileExists, tableExists, messages, seq, now, cmd,
                  issued, delivered, start >>

\* checkMessages: the SELECT of the unread rows and its callback
SelectUnread(p) ==
  /\ pc[p] = "stmt"
  /\ cmd[p].name = "check"
  /\ \/ \E rows \in Ordered(Matching(cmd[p].agent, TRUE), TRUE) :
          /\ selected' = [selected EXCEPT ![p] = rows]
          /\ IF Len(rows) = 0
               THEN /\ Resolve(p, 0)
                    /\ dbOpen' = [dbOpen EXCEPT ![p] = FALSE]
               ELSE /\ pc' = [pc EXCEPT ![p] = "update"]
                    /\ UNCHANGED << outcome, exitCode, dbOpen >>
     \/ /\ Reject(p, "select")
        /\ UNCHANGED << selected, dbOpen >>
  /\ UNCHANGED << env, dirs, dbPath, corrupted, config, fileExists, tableExists, messages, seq, now, cmd,
                  issued, delivered, start >>

\* (variant: an UPDATE that reports an error has marked the first row it reached)
MarkSelectedRead_PartialThenError(p) ==
  /\ pc[p] = "update"
  /\ \E t \in CurrentTimestamp :
       /\ now' = t
       /\ \/ /\ messages' = MarkRead(RowIds(selected[p]), t)
             /\ delivered' = [i \in Ids |->
                                IF i \in RowIds(selected[p]) THEN delivered[i] + 1 ELSE delivered[i]]
             /\ Resolve(p, 0)
          \/ /\ messages' = MarkRead({selected[p][1].id}, t)
             /\ Reject(p, "update")
             /\ UNCHANGED delivered
  /\ dbOpen' = [dbOpen EXCEPT ![p] = FALSE]
  /\ UNCHANGED << env, dirs, dbPath, corrupted, config, fileExists, tableExists, seq, cmd, selected, issued, start >>

\* checkMessages: the UPDATE that marks the selected ids read, and its callback
MarkSelectedRead(p) ==
  /\ pc[p] = "update"
  /\ \/ \E t \in CurrentTimestamp :
          /\ messages' = MarkRead(RowIds(selected[p]), t)
          /\ now' = t
          /\ delivered' = [i \in Ids |->
                             IF i \in RowIds(selected[p]) THEN delivered[i] + 1 ELSE delivered[i]]
          /\ Resolve(p, 0)
     \/ /\ Reject(p, "update")
        /\ UNCHANGED << messages, now, delivered >>
  /\ dbOpen' = [dbOpen EXCEPT ![p] = FALSE]
  /\ UNCHANGED << env, dirs, dbPath, corrupted, config, fileExists, tableExists, seq, cmd, selected, issued, start >>

\* (variant: the listing marks what it lists as read, as the drain does)
SelectInbox_MarksRead(p) ==
  /\ pc[p] = "stmt"
  /\ cmd[p].name = "inbox"
  /\ \/ \E rows \in Ordered(Matching(cmd[p].agent, cmd[p].unreadOnly), FALSE) :
          /\ selected' = [selected EXCEPT ![p] = rows]
          /\ messages' = MarkRead(RowIds(rows), now)
          /\ Resolve(p, 0)
          /\ dbOpen' = [dbOpen EXCEPT ![p] = FALSE]
     \/ /\ Reject(p, "select")
        /\ UNCHANGED << selected, dbOpen, messages >>
  /\ UNCHANGED << env, dirs, dbPath, corrupted, config, fileExists, tableExists, seq, now, cmd,
                  issued, delivered, start >>

\* showInbox: the SELECT and its callback
SelectInbox(p) ==
  /\ pc[p] = "stmt"
  /\ cmd[p].name = "inbox"
  /\ \/ \E rows \in Ordered(Matching(cmd[p].agent, cmd[p].unreadOnly), FALSE) :
          /\ selected' = [selected EXCEPT ![p] = rows]
          /\ Resolve(p, 0)
          /\ dbOpen' = [dbOpen EXCEPT ![p] = FALSE]
     \/ /\ Reject(p, "select")
        /\ UNCHANGED << selected, dbOpen >>
  /\ UNCHANGED << env, dirs, dbPath, corrupted, config, fileExists, tableExists, messages, seq, now, cmd,
                  issued, delivered, start >>

\* process.exit(status) of a cron command, with what it has printed
CronExit(p, status, printed) ==
  /\ config' = [config EXCEPT ![p] = printed]
  /\ exitCode' = [exitCode EXCEPT ![p] = status]
  /\ pc' = [pc EXCEPT ![p] = "done"]
  /\ UNCHANGED << env, dirs, dbPath, corrupted, fileExists, tableExists, messages, seq,
                  now, cmd, dbOpen, selected, outcome, issued, delivered, start >>

\* the action of setup-cron
SetupCron(p) ==
  /\ pc[p] = "cron"
  /\ cmd[p].name = "setup-cron"
  /\ LET interval == parseInt(cmd[p].interval)
     IN IF Trim(cmd[p].agent) = <<>> THEN CronExit(p, 1, <<>>)
        ELSE IF interval = NaN THEN CronExit(p, 1, <<>>)
        ELSE IF interval[1] <= 0 THEN CronExit(p, 1, <<>>)
        ELSE CronExit(p, 0, << SetupConfig(cmd[p].agent, interval[1]) >>)

\* the action of remove-cron
RemoveCron(p) ==
  /\ pc[p] = "cron"
  /\ cmd[p].name = "remove-cron"
  /\ IF Trim(cmd[p].agent) = <<>>
       THEN CronExit(p, 1, <<>>)
       ELSE CronExit(p, 0, << RemoveConfig(cmd[p].agent) >>)

\* The maintenance command of the operator, run with the sqlite3 shell:
\* DELETE FROM messages WHERE timestamp < datetime('now', '-N days').  The rows
\* older than the cutoff go; sqlite_sequence is not touched.
Cleanup(cutoff) ==
  /\ tableExists
  /\ \E i \in DOMAIN messages : messages[i].timestamp < cutoff
  /\ messages' = SelectSeq(messages, LAMBDA r : r.timestamp >= cutoff)
  /\ UNCHANGED << env, dirs, dbPath, corrupted, config, fileExists, tableExists, seq, now, pc, cmd, dbOpen,
                  selected, outcome, exitCode, issued, delivered, start >>

\* A fault of the disk or the file system damages the database file: from
\* then on it would fail PRAGMA integrity_check.  No command runs that check.
Damage ==
  /\ fileExists /\ tableExists
  /\ ~corrupted
  /\ corrupted' = TRUE
  /\ UNCHANGED << env, dirs, dbPath, config, fileExists, tableExists, messages, seq, now, pc,
                  cmd, dbOpen, selected, outcome, exitCode, issued, delivered, start >>

\* Concurrent deposits and drains.
Next ==
  \/ \E p \in Procs, c \in DrainCommands : Invoke(p, c)
  \/ \E p \in Procs : OpenDb(p)
  \/ \E p \in Procs : Bootstrap(p)
  \/ \E p \in Procs : Insert(p)
  \/ \E p \in Procs : SelectUnread(p)
  \/ \E p \in Procs : MarkSelectedRead(p)

Spec == Init /\ [][Next]_vars

\* Concurrent deposits, drains and listings of one inbox.
NextInbox ==
  \/ \E p \in Procs, c \in InboxCommands : Invoke(p, c)
  \/ \E p \in Procs : OpenDb(p)
  \/ \E p \in Procs : Bootstrap(p)
  \/ \E p \in Procs : Insert(p)
  \/ \E p \in Procs : SelectUnread(p)
  \/ \E p \in Procs : MarkSelectedRead(p)
  \/ \E p \in Procs : SelectInbox(p)

SpecInbox == Init /\ [][NextInbox]_vars

\* One process at a time, any command line, empty fields included.
NextInput ==
  \/ \E c \in Commands : Invoke(1, c)
  \/ OpenDb(1)
  \/ Bootstrap(1)
  \/ Insert(1)
  \/ SelectUnread(1)
  \/ MarkSelectedRead(1)
  \/ SelectInbox(1)

SpecInput == Init /\ [][NextInput]_vars

\* One process at a time, deposits and drains, and the operator's cleanup
\* between any two steps.
NextCleanup ==
  \/ \E c \in DrainCommands : Invoke(1, c)
  \/ OpenDb(1)
  \/ Bootstrap(1)
  \/ Insert(1)
  \/ SelectUnread(1)
  \/ MarkSelectedRead(1)
  \/ \E cutoff \in 1..(MaxTime + 1) : Cleanup(cutoff)

SpecCleanup == Init /\ [][NextCleanup]_vars

\* One process at a time, deposits, drains and listings, started in any
\* environment.
NextPath ==
  \/ \E c \in DrainCommands \cup {InboxCmd("cody", FALSE)} : Invoke(1, c)
  \/ OpenDb(1)
  \/ Bootstrap(1)
  \/ Insert(1)
  \/ SelectUnread(1)
  \/ MarkSelectedRead(1)
  \/ SelectInbox(1)

SpecPath == InitPath /\ [][NextPath]_vars

\* The callbacks of process p: sqlite3 calls the callback of every statement it
\* was given, once the statement has succeeded or failed.
Callbacks(p) ==
  \/ OpenDb(p)
  \/ Bootstrap(p)
  \/ Insert(p)
  \/ SelectUnread(p)
  \/ MarkSelectedRead(p)
  \/ SelectInbox(p)

\* One process at a time, deposits, drains and listings, where every statement
\* the process has issued gets its callback.
SpecSettle == Init /\ [][NextPath]_vars /\ WF_vars(Callbacks(1))

\* One process at a time, deposits and drains, and a fault that damages the
\* file between any two steps.
NextDamage ==
  \/ \E c \in DrainCommands : Invoke(1, c)
  \/ OpenDb(1)
  \/ Bootstrap(1)
  \/ Insert(1)
  \/ SelectUnread(1)
  \/ MarkSelectedRead(1)
  \/ Damage

SpecDamage == Init /\ [][NextDamage]_vars

\* Concurrent deposits and drains of two inboxes, one process per inbox.
NextTwoInboxes ==
  \/ \E p \in Procs : \E c \in TwoInboxCommands(p) : Invoke(p, c)
  \/ \E p \in Procs : OpenDb(p)
  \/ \E p \in Procs : Bootstrap(p)
  \/ \E p \in Procs : Insert(p)
  \/ \E p \in Procs : SelectUnread(p)
  \/ \E p \in Procs : MarkSelectedRead(p)

SpecTwoInboxes == Init /\ [][NextTwoInboxes]_vars

\* The cron commands, two at a time.
NextCron ==
  \/ \E p \in Procs, c \in CronCommands : Invoke(p, c)
  \/ \E p \in Procs : SetupCron(p)
  \/ \E p \in Procs : RemoveCron(p)

SpecCron == Init /\ [][NextCron]_vars

TypeOK ==
  /\ env \in Environments
  /\ corrupted \in BOOLEAN
  /\ \A p \in Procs : dbPath[p] \in {NoPath, DefaultPath, CustomPath}
  /\ now \in 0..MaxTime
  /\ seq \in 0..MaxMsgs
  /\ \A p \in Procs : pc[p] \in {"idle", "open", "bootstrap", "stmt", "update", "cron", "done"}

\* ---------------------------------------------------------------- vocabulary of the properties
Done(p) == pc[p] = "done"
Ok(p) == Done(p) /\ outcome[p].kind = "ok"
Failed(p) == Done(p) /\ outcome[p].kind = "error"

\* A completed DrainUnread / ListInbox / Deposit and what it returned
DrainOk(p) == Ok(p) /\ cmd[p].name = "check"
InboxOk(p) == Ok(p) /\ cmd[p].name = "inbox"
DepositOk(p) == Ok(p) /\ cmd[p].name = "send"
Result(p) == selected[p]
ResultIds(p) == RowIds(selected[p])

Stored(id) == \E r \in Range(messages) : r.id = id
RowOf(id) == CHOOSE r \in Range(messages) : r.id = id
UnreadIds == { r.id : r \in { x \in Range(messages) : x.read_at = NULL } }
IdsTo(agent) == { r.id : r \in { x \in Range(messages) : x.to_agent = agent } }

\* The ids deposits had returned when the command of p started, and since
IssuedBefore(p) == { issued[k] : k \in 1..start[p].nIssued }
IssuedSince(p) == { issued[k] : k \in (start[p].nIssued + 1)..Len(issued) }

\* The unread set of the agent of p's command when the command started
UnreadAtStart(p) == (IssuedBefore(p) \cap IdsTo(cmd[p].agent)) \ start[p].read

\* ---------------------------------------------------------------- C1
\* C1: no message id appears in the results of two DrainUnread calls for the
\* same agent, whatever the interleaving of their select and mark-read steps.
C1_DrainsDisjoint ==
  \A p, q \in Procs :
    (p # q /\ DrainOk(p) /\ DrainOk(q) /\ cmd[p].agent = cmd[q].agent)
      => ResultIds(p) \cap ResultIds(q) = {}

\* ---------------------------------------------------------------- C2
\* C2: two DrainUnread(A) calls that started with the same N unread messages,
\* both completed successfully, with no deposit for A since they started and no
\* third drain involved, return between them exactly those N ids.
NoDepositSince(p) == IssuedSince(p) \cap IdsTo(cmd[p].agent) = {}

Returns(p, id) == IF id \in ResultIds(p) THEN 1 ELSE 0

ConcurrentDrains(p, q) ==
  /\ p # q
  /\ DrainOk(p) /\ DrainOk(q)
  /\ cmd[p].agent = cmd[q].agent
  /\ UnreadAtStart(p) = UnreadAtStart(q)
  /\ NoDepositSince(p) /\ NoDepositSince(q)
  /\ \A id \in UnreadAtStart(p) : delivered[id] <= Returns(p, id) + Returns(q, id)

C2_UnionIsUnreadSet ==
  \A p, q \in Procs :
    ConcurrentDrains(p, q)
      => /\ ResultIds(p) \cup ResultIds(q) = UnreadAtStart(p)
         /\ Cardinality(ResultIds(p) \cup ResultIds(q)) = Cardinality(UnreadAtStart(p))

\* Two drains that both selected the same two unread messages
C2_Witness ==
  \E p, q \in Procs :
    /\ ConcurrentDrains(p, q)
    /\ Cardinality(UnreadAtStart(p)) >= 2
    /\ ResultIds(p) = UnreadAtStart(p)
    /\ ResultIds(q) = UnreadAtStart(p)

\* ---------------------------------------------------------------- C3
\* C3: a DrainUnread that starts after a message was returned by a drain does
\* not return it, and a ListInbox that starts after it reports it, with
\* read_at set.
C3_ReadOnce ==
  /\ \A p \in Procs : DrainOk(p) => ResultIds(p) \cap start[p].delivered = {}
  /\ \A p \in Procs : InboxOk(p) =>
       /\ \A i \in DOMAIN Result(p) :
            Result(p)[i].id \in start[p].delivered => Result(p)[i].read_at # NULL
       /\ ~cmd[p].unreadOnly =>
            (start[p].delivered \cap IdsTo(cmd[p].agent)) \subseteq ResultIds(p)

\* A drain and a listing of an inbox, both started after a message of that
\* inbox had been returned by a drain
C3_Witness ==
  \E p, q \in Procs :
    /\ DrainOk(p) /\ InboxOk(q) /\ cmd[p].agent = cmd[q].agent
    /\ start[p].delivered \cap IdsTo(cmd[p].agent) # {}
    /\ start[q].delivered \cap ResultIds(q) # {}

\* ---------------------------------------------------------------- C4
\* C4: a read_at that is set keeps its value in every step.
C4_ReadAtFixed ==
  [][ \A i \in DOMAIN messages :
        messages[i].read_at # NULL
          => /\ i \in DOMAIN messages'
             /\ messages'[i].read_at = messages[i].read_at ]_vars

\* ---------------------------------------------------------------- C5
\* C5: in every step, the messages that become read are returned by the drain
\* that completes in that step, and the messages a completing drain returns
\* are read when it returns; so a message deposited while a drain runs is
\* either returned and marked read by it or neither.
BecameRead ==
  { messages[i].id : i \in { j \in DOMAIN messages :
       /\ messages[j].read_at = NULL
       /\ j \in DOMAIN messages' /\ messages'[j].read_at # NULL } }

C5_ReturnedIffMarked ==
  [][ /\ BecameRead # {} =>
           \E p \in Procs : ~Done(p) /\ DrainOk(p)' /\ BecameRead \subseteq ResultIds(p)'
      /\ \A p \in Procs : (~Done(p) /\ DrainOk(p)') =>
           \A id \in ResultIds(p)' : \E r \in Range(messages') : r.id = id /\ r.read_at # NULL
    ]_vars

\* A deposit for cody that overlapped a completed drain of cody which returned
\* other messages: the send started before the drain marked its rows, its row
\* was inserted after the drain started, was not returned and is unread.
C5_Witness ==
  \E p, q \in Procs :
    /\ DrainOk(p) /\ DepositOk(q) /\ cmd[q].req.to = cmd[p].agent
    /\ ResultIds(p) # {}
    /\ ResultIds(p) \cap start[q].read = {}
    /\ outcome[q].lastID \in IssuedSince(p)
    /\ outcome[q].lastID \notin ResultIds(p)
    /\ outcome[q].lastID \in UnreadIds

\* ---------------------------------------------------------------- C6
\* C6: every deposited message is stored, and unread as long as no drain has
\* returned it; a successful drain of A returns every message for A deposited
\* before it started unless a drain has returned it already.
C6_NoLoss ==
  /\ \A id \in Range(issued) :
       /\ Stored(id)
       /\ delivered[id] = 0 => RowOf(id).read_at = NULL
  /\ \A p \in Procs : DrainOk(p) =>
       \A id \in IssuedBefore(p) \cap IdsTo(cmd[p].agent) :
         id \in ResultIds(p) \/ delivered[id] > 0

\* A successful drain that returned a message deposited before it started
C6_Witness ==
  \E p \in Procs : DrainOk(p) /\ IssuedBefore(p) \cap ResultIds(p) # {}

\* ---------------------------------------------------------------- C7
\* C7: the ids deposits return are pairwise distinct, and a deposit returns an
\* id greater than every id returned before it started.
C7_MonotonicIds ==
  /\ \A i, j \in DOMAIN issued : i # j => issued[i] # issued[j]
  /\ \A p \in Procs : DepositOk(p) =>
       \A id \in IssuedBefore(p) : id < outcome[p].lastID

\* A deposit has returned that started after another deposit had returned
C7_Witness ==
  \E p, q \in Procs :
    /\ p # q /\ DepositOk(p) /\ DepositOk(q)
    /\ outcome[q].lastID \in IssuedBefore(p)

\* ---------------------------------------------------------------- C8
\* C8: the step in which a deposit succeeds appends exactly one row, holding
\* the given from, to and body, the given subject or NULL when none was given,
\* and a NULL read_at, and the deposit returns the id of that row.
C8_DepositAddsRow ==
  [][ \A p \in Procs : (~Done(p) /\ DepositOk(p)') =>
        /\ Len(messages') = Len(messages) + 1
        /\ SubSeq(messages', 1, Len(messages)) = messages
        /\ LET row == messages'[Len(messages')]
               req == cmd[p].req
           IN /\ row.from_agent = req.from
              /\ row.to_agent = req.to
              /\ row.body = req.body
              /\ row.subject = (IF req.subject = Undefined THEN NULL ELSE req.subject)
              /\ req.subject = <<"">> => row.subject # NULL
              /\ row.read_at = NULL
              /\ outcome'[p].lastID = row.id
              /\ \A i \in 1..Len(messages) : messages[i].id # row.id
    ]_vars

\* A deposit without a subject has returned the id of its row, whose subject
\* is NULL, next to a stored row whose subject is the empty string
C8_Witness ==
  \E p \in Procs :
    /\ DepositOk(p) /\ cmd[p].req.subject = Undefined
    /\ Stored(outcome[p].lastID)
    /\ RowOf(outcome[p].lastID).subject = NULL
    /\ RowOf(outcome[p].lastID).read_at = NULL
    /\ \E r \in Range(messages) : r.subject = <<"">>

\* ---------------------------------------------------------------- C9
\* C9: a deposit with an empty from, to or body fails, and no stored message
\* has an empty from_agent, to_agent or body.
HasEmptyField(req) == req.from = "" \/ req.to = "" \/ req.body = ""

C9_EmptyDepositRejected ==
  /\ \A p \in Procs :
       (Done(p) /\ cmd[p].name = "send" /\ HasEmptyField(cmd[p].req)) => Failed(p)
  /\ \A r \in Range(messages) : r.from_agent # "" /\ r.to_agent # "" /\ r.body # ""

\* ---------------------------------------------------------------- C10
\* C10: a DrainUnread or ListInbox with an empty agent fails instead of
\* returning a sequence.
C10_EmptyAgentRejected ==
  \A p \in Procs :
    (Done(p) /\ cmd[p].name \in {"check", "inbox"} /\ cmd[p].agent = "") => Failed(p)

\* ---------------------------------------------------------------- C11
\* C11: a command with an empty required input never gets as far as storage:
\* its process opens no database handle and runs neither the schema bootstrap
\* nor a statement.
EmptyRequired(c) ==
  \/ c.name = "send" /\ HasEmptyField(c.req)
  \/ c.name \in {"check", "inbox"} /\ c.agent = ""

C11_RejectedBeforeStorage ==
  \A p \in Procs :
    EmptyRequired(cmd[p]) => ~dbOpen[p] /\ pc[p] \notin {"bootstrap", "stmt", "update"}

\* ---------------------------------------------------------------- C12
\* C12 (as claimed): every record a successful drain returns has read_at set
\* and otherwise the data of the stored row.
C12_ReturnedAsRead ==
  \A p \in Procs : DrainOk(p) =>
    \A i \in DOMAIN Result(p) :
      /\ Result(p)[i].read_at # NULL
      /\ Stored(Result(p)[i].id)
      /\ [RowOf(Result(p)[i].id) EXCEPT !.read_at = NULL]
           = [Result(p)[i] EXCEPT !.read_at = NULL]

\* C12 (amended): every record a successful drain returns is the row as it was
\* selected: its read_at is absent in the record, the stored row has read_at
\* set, and id, from_agent, to_agent, subject, body and timestamp are those of
\* the stored row.
C12_ReturnedAsSelected ==
  \A p \in Procs : DrainOk(p) =>
    \A i \in DOMAIN Result(p) :
      /\ Result(p)[i].read_at = NULL
      /\ Stored(Result(p)[i].id)
      /\ RowOf(Result(p)[i].id).read_at # NULL
      /\ [RowOf(Result(p)[i].id) EXCEPT !.read_at = NULL] = Result(p)[i]

\* A drain has returned two records, both stored as read
C12_Witness ==
  \E p \in Procs :
    /\ DrainOk(p) /\ Len(Result(p)) = 2
    /\ \A i \in DOMAIN Result(p) :
         Result(p)[i].read_at = NULL /\ RowOf(Result(p)[i].id).read_at # NULL

\* ---------------------------------------------------------------- C13
\* rows in ascending timestamp order, equal timestamps in ascending id order
AscendingById(rows) ==
  \A i, j \in DOMAIN rows :
    i < j => \/ rows[i].timestamp < rows[j].timestamp
             \/ rows[i].timestamp = rows[j].timestamp /\ rows[i].id < rows[j].id

\* C13: a successful drain returns its records in ascending created_at order,
\* and two returned records with equal created_at appear in ascending id order.
C13_DrainAscendingTiesById ==
  \A p \in Procs : DrainOk(p) => AscendingById(Result(p))

\* ---------------------------------------------------------------- C14
\* rows in descending timestamp order, equal timestamps in descending id order
DescendingById(rows) ==
  \A i, j \in DOMAIN rows :
    i < j => \/ rows[i].timestamp > rows[j].timestamp
             \/ rows[i].timestamp = rows[j].timestamp /\ rows[i].id > rows[j].id

Reverse(rows) == [ i \in DOMAIN rows |-> rows[Len(rows) + 1 - i] ]

\* C14: a successful inbox listing is in descending created_at order with ties
\* in descending id order, and with unreadOnly it is the reverse of every
\* sequence a drain may return from the state it was taken in.
C14_InboxDescendingReverseOfDrain ==
  [][ \A p \in Procs :
        ~Done(p) /\ InboxOk(p)' =>
          /\ DescendingById(selected'[p])
          /\ cmd[p].unreadOnly =>
               \A d \in Ordered(Matching(cmd[p].agent, TRUE), TRUE) :
                 selected'[p] = Reverse(d) ]_vars

\* ---------------------------------------------------------------- C15
\* C15: no step of an inbox listing, with or without unreadOnly, changes the
\* stored messages: no read_at is set, no row is added or removed, so what a
\* drain would return for any agent is the same before and after.
C15_InboxReadOnly ==
  [][ \A p \in Procs :
        cmd'[p].name = "inbox" /\ pc'[p] # pc[p] =>
          /\ messages' = messages
          /\ seq' = seq
          /\ \A a \in Agents :
               Ordered(Matching(a, TRUE), TRUE)' = Ordered(Matching(a, TRUE), TRUE) ]_vars

\* A listing has returned an unread message that is still unread in the store
C15_Witness ==
  \E p \in Procs :
    /\ InboxOk(p)
    /\ \E i \in DOMAIN Result(p) :
         /\ Result(p)[i].read_at = NULL
         /\ Stored(Result(p)[i].id)
         /\ RowOf(Result(p)[i].id).read_at = NULL

\* ---------------------------------------------------------------- C16
\* C16: a successful inbox listing returns exactly the stored messages whose
\* to_agent is the agent asked for (with unreadOnly, only those whose read_at
\* is absent), each exactly once, each record with the stored read_at of the
\* moment of the call.
C16_InboxExact ==
  [][ \A p \in Procs :
        ~Done(p) /\ InboxOk(p)' =>
          /\ \A i \in DOMAIN selected'[p] : Stored(selected'[p][i].id)
                                            /\ selected'[p][i] = RowOf(selected'[p][i].id)
          /\ \A i, j \in DOMAIN selected'[p] :
               selected'[p][i].id = selected'[p][j].id => i = j
          /\ \A j \in DOMAIN messages :
               (messages[j].id \in RowIds(selected'[p]))
                 <=> /\ messages[j].to_agent = cmd[p].agent
                     /\ cmd[p].unreadOnly => messages[j].read_at = NULL ]_vars

\* An unread-only listing has returned a message and left out a stored
\* message of the same agent that is read
C16_Witness ==
  \E p \in Procs :
    /\ InboxOk(p) /\ cmd[p].unreadOnly /\ Result(p) # <<>>
    /\ \E j \in DOMAIN messages :
         messages[j].to_agent = cmd[p].agent /\ messages[j].read_at # NULL
         /\ messages[j].id \notin ResultIds(p)

\* ---------------------------------------------------------------- C17
\* an unread-only look at an agent's mail: a drain or an unread-only listing
UnreadQuery(c) ==
  \/ c.name = "check"
  \/ c.name = "inbox" /\ c.unreadOnly

\* C17: a drain or an unread-only listing for A that is started on the state
\* a successful drain for A left, with no other operation in between, starts
\* with no unread message for A, and such a command returns the empty sequence.
C17_NothingLeftAfterDrain ==
  [][ \A p \in Procs :
        /\ ( /\ DrainOk(p) /\ pc'[p] = "open"
             /\ UnreadQuery(cmd'[p]) /\ cmd'[p].agent = cmd[p].agent )
             => /\ UnreadAtStart(p)' = {}
                /\ \A r \in Range(messages) :
                     r.to_agent = cmd[p].agent => r.read_at # NULL
        /\ ( /\ ~Done(p) /\ Ok(p)' /\ UnreadQuery(cmd[p])
             /\ UnreadAtStart(p) = {} /\ NoDepositSince(p) )
             => selected'[p] = <<>> ]_vars

\* A drain or unread-only listing has returned the empty sequence for an agent
\* whose messages had all been returned by a drain when it started
C17_Witness ==
  \E p \in Procs :
    /\ Ok(p) /\ UnreadQuery(cmd[p]) /\ Result(p) = <<>>
    /\ UnreadAtStart(p) = {}
    /\ IdsTo(cmd[p].agent) # {}
    /\ IdsTo(cmd[p].agent) \subseteq start[p].delivered

\* ---------------------------------------------------------------- C18
\* the stored messages for an agent that are unread
UnreadFor(agent) ==
  { r \in Range(messages) : r.to_agent = agent /\ r.read_at = NULL }

\* C18: when a drain runs its SELECT and the agent has no unread message, the
\* command ends there: it returns the empty sequence, the only error it can
\* end with is a failure of the SELECT itself, it issues no UPDATE and the
\* stored messages are unchanged.
C18_EmptyDrainNoWrite ==
  [][ \A p \in Procs :
        ( /\ pc[p] = "stmt" /\ cmd[p].name = "check" /\ pc'[p] # pc[p]
          /\ UnreadFor(cmd[p].agent) = {} )
          => /\ pc'[p] = "done"
             /\ selected'[p] = <<>>
             /\ outcome'[p].kind = "ok" \/ outcome'[p].err = "select"
             /\ messages' = messages
             /\ seq' = seq ]_vars

\* A drain has returned the empty sequence for an agent whose stored messages
\* are all read
C18_Witness ==
  \E p \in Procs :
    /\ DrainOk(p) /\ Result(p) = <<>>
    /\ IdsTo(cmd[p].agent) # {}
    /\ UnreadFor(cmd[p].agent) = {}

\* ---------------------------------------------------------------- C19
\* C19: no step changes the id, from_agent, to_agent, subject, body or
\* created_at of a stored message; only its read_at can change, so every
\* stored message keeps the values it was deposited with.
C19_OnlyReadAtChanges ==
  [][ \A i \in DOMAIN messages :
        /\ i \in DOMAIN messages'
        /\ [messages'[i] EXCEPT !.read_at = NULL]
             = [messages[i] EXCEPT !.read_at = NULL] ]_vars

\* A stored message has been marked read at a later second than its deposit
C19_Witness ==
  \E r \in Range(messages) :
    r.read_at # NULL /\ r.read_at[1] > r.timestamp

\* ---------------------------------------------------------------- C20
\* C20: no step of a deposit, a drain or an inbox listing removes a message:
\* the set of stored message ids never shrinks.
C20_NeverDeleted ==
  [][ RowIds(messages) \subseteq RowIds(messages') ]_vars

\* A drain and an inbox listing have completed and every id a deposit
\* returned is still stored
C20_Witness ==
  /\ \E p \in Procs : DrainOk(p) /\ Result(p) # <<>>
  /\ \E p \in Procs : InboxOk(p) /\ Result(p) # <<>>
  /\ issued # <<>>
  /\ Range(issued) \subseteq RowIds(messages)

\* ---------------------------------------------------------------- C21
\* C21: an id a deposit has returned is never returned by a later deposit,
\* also when the cleanup has deleted messages, the one with the highest id
\* included, in between.
C21_IdNeverReused ==
  \A i, j \in DOMAIN issued : i < j => issued[i] < issued[j]

\* Two deposits have returned; the message of the first, then the only one and
\* so the highest id, was deleted before the second was stored: the second
\* carries the earliest timestamp, so a cleanup that had met it would have
\* deleted it with the first.
C21_Witness ==
  /\ Len(issued) = 2
  /\ issued[1] \notin RowIds(messages)
  /\ \E r \in Range(messages) : r.id = issued[2] /\ r.timestamp = 0

C24_HandleClosedOnExit ==
  \A p \in Procs : Done(p) => ~dbOpen[p]

\* ---------------------------------------------------------------- C25
\* C25: the schema bootstrap of initDatabase, run any number of times, one
\* after the other or by two processes at once, never fails because the table
\* is already there, leaves the messages table in place and changes no row.
C25_BootstrapIdempotent ==
  [][ \A p \in Procs :
        pc[p] = "bootstrap" /\ pc'[p] # pc[p] =>
          /\ outcome'[p].err # "table messages already exists"
          /\ tableExists => tableExists'
          /\ pc'[p] = "stmt" => tableExists'
          /\ messages' = messages
          /\ seq' = seq ]_vars

\* Two processes have both run the bootstrap on a path that was fresh when
\* they started and holds no message yet
C25_Witness ==
  \E p, q \in Procs :
    /\ p # q
    /\ pc[p] = "stmt" /\ pc[q] = "stmt"
    /\ start[p].nIssued = 0 /\ start[q].nIssued = 0
    /\ tableExists /\ messages = <<>>

\* ---------------------------------------------------------------- C26
\* C26: no step of a deposit other than its successful INSERT changes the
\* store, and a deposit that failed, at the open, the bootstrap or the INSERT,
\* has returned no id: the rows, the id sequence and the ids handed out are
\* what they were.
C26_FailedDepositLeavesNothing ==
  [][ \A p \in Procs :
        ( /\ cmd'[p].name = "send" /\ pc'[p] # pc[p]
          /\ ~DepositOk(p)' )
          => /\ messages' = messages
             /\ seq' = seq
             /\ issued' = issued
             /\ Failed(p)' => outcome'[p].lastID = 0 ]_vars

\* A deposit has failed at its INSERT on a store that holds messages
C26_Witness ==
  \E p \in Procs :
    /\ Failed(p) /\ cmd[p].name = "send" /\ outcome[p].err = "insert"
    /\ messages # <<>>
    /\ RowIds(messages) = Range(issued)

\* ---------------------------------------------------------------- C27
\* C27: a command whose statement runs on a store that fails the integrity
\* check ends with the error kind Corrupted, and no step of a command repairs
\* or recreates the damaged store.
C27_CorruptionReported ==
  [][ \A p \in Procs :
        /\ ( /\ corrupted /\ pc[p] \in {"stmt", "update"}
             /\ ~Done(p) /\ Done(p)' )
             => Failed(p)' /\ outcome'[p].err = "Corrupted"
        /\ corrupted => corrupted' /\ fileExists' /\ tableExists' ]_vars

\* ---------------------------------------------------------------- C28
\* C28: a send, check or inbox command whose store operation failed has
\* reported the error and exited with a non-zero status; a command has exited
\* with status zero exactly when its operation succeeded, and has no exit
\* status while it runs.
C28_ErrorReachesCaller ==
  \A p \in Procs :
    /\ Done(p) =>
         /\ outcome[p].kind \in {"ok", "error"}
         /\ outcome[p].kind = "error" => exitCode[p] # 0 /\ outcome[p].err # ""
         /\ exitCode[p] = 0 <=> outcome[p].kind = "ok"
    /\ InFlight(p) => exitCode[p] = -1 /\ outcome[p].kind = "pending"

\* A drain whose UPDATE failed has exited with status 1
C28_Witness ==
  \E p \in Procs :
    /\ Failed(p) /\ cmd[p].name = "check" /\ outcome[p].err = "update"
    /\ exitCode[p] = 1

\* ---------------------------------------------------------------- C29
\* DEADROP_DB is set: to the empty string or to a file name
IsSet(v) == v # Undefined

\* DEADROP_DB is set to a file name
IsSetNonEmpty(v) == v # Undefined /\ v # <<"">>

\* C29 (as claimed): the path of a started process is the value of DEADROP_DB
\* when it is set and the default otherwise, and its directory exists.
C29_PathFromEnvWhenSet ==
  \A p \in Procs :
    pc[p] # "idle" =>
      /\ dbPath[p] = IF IsSet(env.DEADROP_DB) THEN env.DEADROP_DB[1] ELSE DefaultPath
      /\ Dirname(dbPath[p]) \in dirs

\* C29 (amended): the path of a started process is the value of DEADROP_DB
\* when it is set to a non-empty value and the default otherwise; it is fixed
\* when the process starts and stays as it is while the command runs; its
\* directory exists from the start of the process on, so before the store is
\* opened.
C29_PathFromEnvWhenNonEmpty ==
  [][ \A p \in Procs :
        /\ pc'[p] # "idle" =>
             /\ dbPath'[p] = IF IsSetNonEmpty(env.DEADROP_DB)
                               THEN env.DEADROP_DB[1] ELSE DefaultPath
             /\ Dirname(dbPath'[p]) \in dirs'
        /\ InFlight(p) => dbPath'[p] = dbPath[p]
        /\ dirs \subseteq dirs' ]_vars

\* A handle is open on the file DEADROP_DB names, whose directory is the only
\* one there is
C29_Witness ==
  \E p \in Procs :
    /\ dbOpen[p] /\ fileExists
    /\ env.DEADROP_DB = <<CustomPath>>
    /\ dbPath[p] = CustomPath
    /\ dirs = {Dirname(CustomPath)}
    /\ start[p].nIssued = 0 /\ messages = <<>>

PositiveNumber(s) ==
  LET t == Trim(s)
      u == IF t # <<>> /\ Head(t) = "+" THEN Tail(t) ELSE t
  IN /\ u # <<>>
     /\ \A i \in DOMAIN u : u[i] \in Digits \cup {"."}
     /\ Cardinality({ i \in DOMAIN u : u[i] = "." }) <= 1
     /\ \E i \in DOMAIN u : u[i] \in Digits \ {"0"}

WholeNumber(s) == Trim(s) # <<>> /\ \A i \in DOMAIN Trim(s) : Trim(s)[i] \in Digits

\* C31: setup-cron has exited with status 1 and printed no configuration when
\* the agent is empty or blank or the interval is not a positive number;
\* otherwise it has printed a create configuration whose command is
\* `deadrop check --agent <trimmed agent>`, whose interval is `<n>m` (10m when
\* no interval was given) and whose enabled is true.
C31_SetupCronValidates ==
  \A p \in Procs :
    (Done(p) /\ cmd[p].name = "setup-cron") =>
      IF Trim(cmd[p].agent) = <<>> \/ ~PositiveNumber(cmd[p].interval)
        THEN exitCode[p] = 1 /\ config[p] = <<>>
        ELSE /\ exitCode[p] = 0
             /\ config[p] # <<>>
             /\ config[p][1].action = "create"
             /\ config[p][1].command = CheckCommandLine(Trim(cmd[p].agent))
             /\ config[p][1].enabled
             /\ WholeNumber(cmd[p].interval) =>
                  config[p][1].interval = << DecimalValue(Trim(cmd[p].interval), 0), "m" >>
             /\ ~cmd[p].given => config[p][1].interval = << 10, "m" >>

\* ---------------------------------------------------------------- C32
\* C32: when setup-cron and remove-cron have both printed a configuration for
\* the same agent name, the pattern of the removal equals the command of the
\* setup; and remove-cron prints a configuration for every agent name that is
\* not blank.
C32_RemovalMatchesSetup ==
  \A p, q \in Procs :
    /\ ( /\ Done(p) /\ cmd[p].name = "setup-cron" /\ config[p] # <<>>
         /\ Done(q) /\ cmd[q].name = "remove-cron"
         /\ Trim(cmd[q].agent) = Trim(cmd[p].agent) )
         => /\ config[q] # <<>>
            /\ config[q][1].pattern = config[p][1].command
    /\ (Done(q) /\ cmd[q].name = "remove-cron" /\ Trim(cmd[q].agent) # <<>>)
         => exitCode[q] = 0 /\ config[q] # <<>>

\* setup-cron for "cody" and remove-cron for " cody " have both printed
C32_Witness ==
  \E p, q \in Procs :
    /\ Done(p) /\ cmd[p].name = "setup-cron" /\ config[p] # <<>>
    /\ Done(q) /\ cmd[q].name = "remove-cron" /\ config[q] # <<>>
    /\ cmd[p].agent = <<"c", "o", "d", "y">>
    /\ cmd[q].agent = <<" ", "c", "o", "d", "y", " ">>

\* ---------------------------------------------------------------- C33
\* C33: every step of a drain for A leaves every message addressed to another
\* agent as it is, read_at included, and the rows the drain has selected, and
\* so returns, are all addressed to A.
C33_DrainKeepsToItsInbox ==
  [][ \A p \in Procs :
        (cmd'[p].name = "check" /\ pc'[p] # pc[p]) =>
          /\ \A i \in DOMAIN messages :
               messages[i].to_agent # cmd'[p].agent =>
                 i \in DOMAIN messages' /\ messages'[i] = messages[i]
          /\ \A r \in Range(selected'[p]) : r.to_agent = cmd'[p].agent ]_vars

\* A drain has returned messages while a message for another agent is stored
\* as read
C33_Witness ==
  \E p \in Procs :
    /\ DrainOk(p) /\ Result(p) # <<>>
    /\ \E r \in Range(messages) : r.to_agent # cmd[p].agent /\ r.read_at # NULL

\* ---------------------------------------------------------------- C34
\* C34: the step at which a drain fails, at its SELECT or at its UPDATE,
\* changes no row and delivers nothing, so what it had selected is as unread
\* as before; and the SELECT of a drain that goes on returns every message of
\* its agent that is unread then, those of a failed drain included.
C34_FailedDrainMarksNothing ==
  [][ \A p \in Procs :
        /\ (cmd[p].name = "check" /\ ~Done(p) /\ Failed(p)') =>
             /\ outcome'[p].err \in {"open", "bootstrap", "select", "update"}
             /\ messages' = messages
             /\ delivered' = delivered
        /\ (cmd[p].name = "check" /\ pc[p] = "stmt" /\ pc'[p] # pc[p] /\ ~Failed(p)') =>
             Range(selected'[p]) = UnreadFor(cmd[p].agent) ]_vars

\* A drain has failed at its UPDATE and another drain has returned, alone,
\* the messages the failed one had selected
C34_Witness ==
  \E p, q \in Procs :
    /\ Failed(p) /\ cmd[p].name = "check" /\ outcome[p].err = "update"
    /\ selected[p] # <<>>
    /\ DrainOk(q)
    /\ RowIds(selected[p]) \subseteq ResultIds(q)
    /\ \A id \in RowIds(selected[p]) : delivered[id] = 1

\* ---------------------------------------------------------------- C35
\* C35: when an inbox listing for A takes its rows while a drain for A is
\* between its SELECT and its UPDATE, the messages of that drain are, in the
\* listing, either all unread or all read.
C35_ListingSeesDrainWhole ==
  [][ \A p, q \in Procs :
        ( /\ p # q
          /\ cmd[p].name = "inbox" /\ pc[p] = "stmt" /\ InboxOk(p)'
          /\ cmd[q].name = "check" /\ pc[q] = "update"
          /\ cmd[q].agent = cmd[p].agent )
          => LET seen == { r \in Range(selected'[p]) : r.id \in RowIds(selected[q]) }
             IN \/ \A r \in seen : r.read_at = NULL
                \/ \A r \in seen : r.read_at # NULL ]_vars

\* ---------------------------------------------------------------- C36
\* C36: with one drain per agent running at a time, the steps a drain for
\* another agent takes between the SELECT and the UPDATE of a drain change
\* nothing that drain reads or writes: when its UPDATE runs, its selection is
\* still the unread set of its agent, the set that was unread when it started;
\* the UPDATE marks exactly that set and touches no row of the other agent.
\* Result and store are those of the two drains run one after the other.
C36_DrainsOfTwoAgentsCommute ==
  [][ \A p \in Procs :
        (cmd[p].name = "check" /\ pc[p] = "update" /\ pc'[p] # pc[p]) =>
          /\ NoDepositSince(p) => Range(selected[p]) = UnreadFor(cmd[p].agent)
          /\ RowIds(selected[p]) = UnreadAtStart(p)
          /\ Ok(p)' =>
               /\ \A i \in DOMAIN messages :
                    messages'[i] = IF messages[i].id \in RowIds(selected[p])
                                     THEN [messages[i] EXCEPT !.read_at = <<now'>>]
                                     ELSE messages[i]
               /\ \A r \in Range(messages') :
                    r.to_agent # cmd[p].agent => r \in Range(messages) ]_vars

\* Drains for two agents have both returned messages, and each had started
\* before the other marked its messages read
C36_Witness ==
  /\ DrainOk(1) /\ DrainOk(2)
  /\ cmd[1].agent # cmd[2].agent
  /\ Result(1) # <<>> /\ Result(2) # <<>>
  /\ ResultIds(1) \cap start[2].read = {}
  /\ ResultIds(2) \cap start[1].read = {}

\* ---------------------------------------------------------------- C37
\* C37: a call of sendMessage, checkMessages or showInbox settles exactly
\* once: while it is pending every callback either passes on to the next
\* statement or settles it with a result or an error, once settled its
\* outcome stays as it is until the next command starts, a finished call is
\* never pending, and every call that has started is settled in the end.
C37_SettlesExactlyOnce ==
  /\ [][ \A p \in Procs :
           /\ outcome'[p] # outcome[p] =>
                \/ /\ outcome[p] = Pending /\ InFlight(p)
                   /\ outcome'[p].kind \in {"ok", "error"} /\ Done(p)'
                \/ /\ ~InFlight(p)
                   /\ outcome'[p] = Pending /\ pc'[p] = "open"
           /\ Done(p)' => outcome'[p] # Pending
           /\ InFlight(p)' => outcome'[p] = Pending ]_vars
  /\ \A p \in Procs : InFlight(p) ~> (Done(p) /\ outcome[p] # Pending)

\* A drain that went through all four callbacks has settled with the error of
\* its UPDATE, the last of them
C37_Witness ==
  \E p \in Procs :
    /\ Failed(p) /\ cmd[p].name = "check" /\ outcome[p].err = "update"
    /\ dbOpen[p] = FALSE /\ tableExists /\ Len(selected[p]) > 0

====
